---------------------------- MODULE Spec2Model ----------------------------
(***************************************************************************)
(* Escape-depth-aware JSON normalizer of the JSON visualizer:              *)
(* smartParseJsonInput, analyzeJsonInput, executeUnescape, the older       *)
(* standalone detectJsonInputForm and getEscapeDepth, and the page that    *)
(* calls them: the input listener with its debounce timer, processJSON     *)
(* and the format, minify, escape, unescape and clear handlers.            *)
(*                                                                         *)
(* A text is a sequence of characters; a character is a one-element        *)
(* string, except that the byte-order mark, the backtick and the control   *)
(* characters \b and \f are written by name.  JSON.parse and              *)
(* JSON.stringify are modelled character by character.  The texts are made *)
(* of the characters of Alphabet and of the documents of Docs, and the     *)
(* user-interface texts add the number 1e999 and the literal null.  The    *)
(* texts have no '-', '.', '+', no \uXXXX escape and neither true nor      *)
(* false, so a number is an unsigned integer with an optional unsigned     *)
(* exponent, which is either small or beyond the range of a double.  On    *)
(* such texts JsonParse gives what JSON.parse gives.                       *)
(***************************************************************************)
EXTENDS Integers, Sequences, FiniteSets, TLC

\* ------------------------------------------------------------------------
\* Characters
\* ------------------------------------------------------------------------
DQ == "\""
BS == "\\"
SQ == "'"
BT == "BACKTICK"
LF == "\n"
TAB == "\t"
CR == "\r"
SP == " "
BOM == "BOM"

\* ECMA-404 whitespace, skipped by JSON.parse between tokens.
JsonWS == {SP, TAB, LF, CR}

\* What String.prototype.trim removes (WhiteSpace and LineTerminator); the
\* byte-order mark U+FEFF is part of it.
TrimWS == {SP, TAB, LF, CR, BOM}

\* Characters below U+0020 may not appear raw inside a JSON string literal.
ControlChars == {TAB, LF, CR}

DigitVal == [c \in {"0", "1", "2", "3", "4", "5", "6", "7", "8", "9"} |->
               CASE c = "0" -> 0 [] c = "1" -> 1 [] c = "2" -> 2 [] c = "3" -> 3
                 [] c = "4" -> 4 [] c = "5" -> 5 [] c = "6" -> 6 [] c = "7" -> 7
                 [] c = "8" -> 8 [] c = "9" -> 9]

Digits == DOMAIN DigitVal

\* The single-character escapes of a JSON string literal and what they
\* decode to ("\/" decodes to "/", \b and \f to control characters that are
\* written here by name).
EscapeDecode == [c \in {DQ, BS, "/", "b", "f", "n", "r", "t"} |->
                   CASE c = DQ -> DQ [] c = BS -> BS [] c = "/" -> "/"
                     [] c = "b" -> "BACKSPACE" [] c = "f" -> "FORMFEED"
                     [] c = "n" -> LF [] c = "r" -> CR [] c = "t" -> TAB]

\* ------------------------------------------------------------------------
\* Text helpers
\* ------------------------------------------------------------------------
RECURSIVE TrimStart(_)
TrimStart(s) ==
    IF Len(s) > 0 /\ s[1] \in TrimWS THEN TrimStart(Tail(s)) ELSE s

RECURSIVE TrimEnd(_)
TrimEnd(s) ==
    IF Len(s) > 0 /\ s[Len(s)] \in TrimWS
    THEN TrimEnd(SubSeq(s, 1, Len(s) - 1))
    ELSE s

\* String.prototype.trim
Trim(s) == TrimEnd(TrimStart(s))

\* text.replace(/x/g, y) for a single character x and a text y
RECURSIVE ReplaceAll(_, _, _)
ReplaceAll(s, x, y) ==
    IF s = <<>> THEN <<>>
    ELSE (IF s[1] = x THEN y ELSE <<s[1]>>) \o ReplaceAll(Tail(s), x, y)

\* ------------------------------------------------------------------------
\* JSON values: [t |-> "number", v |-> n], [t |-> "string", v |-> text],
\* [t |-> "array", v |-> <<values>>], [t |-> "object", v |-> <<<<key, value>>>>]
\* (members in insertion order, a repeated key keeps its first position and
\* takes the last value).
\* [t |-> "null", v |-> 0] is null.  The number JSON.parse gives for a text
\* beyond the range of a double is Infinity, written here as -1 (the texts
\* of the model have no negative number).
\* ------------------------------------------------------------------------
Infinity == -1
MaxExponent == 308

NullV == [t |-> "null", v |-> 0]
NumberV(n) == [t |-> "number", v |-> n]
StringV(s) == [t |-> "string", v |-> s]
ArrayV(xs) == [t |-> "array", v |-> xs]
ObjectV(ms) == [t |-> "object", v |-> ms]

\* A parse step: ok, the value read, and the position after it.
PFail == [ok |-> FALSE, v |-> NumberV(0), p |-> 0]
POk(val, pos) == [ok |-> TRUE, v |-> val, p |-> pos]

RECURSIVE SkipWS(_, _)
SkipWS(s, i) ==
    IF i <= Len(s) /\ s[i] \in JsonWS THEN SkipWS(s, i + 1) ELSE i

\* The characters of a string literal after its opening quote.
RECURSIVE ParseStringBody(_, _, _)
ParseStringBody(s, i, acc) ==
    CASE i > Len(s) -> PFail
      [] i <= Len(s) /\ s[i] = DQ -> POk(StringV(acc), i + 1)
      [] i + 1 <= Len(s) /\ s[i] = BS /\ s[i + 1] \in DOMAIN EscapeDecode ->
           ParseStringBody(s, i + 2, Append(acc, EscapeDecode[s[i + 1]]))
      [] i <= Len(s) /\ s[i] \notin ControlChars \cup {DQ, BS} ->
           ParseStringBody(s, i + 1, Append(acc, s[i]))
      [] OTHER -> PFail

\* Digits after the first one.
RECURSIVE ParseDigits(_, _, _)
ParseDigits(s, i, n) ==
    IF i <= Len(s) /\ s[i] \in Digits
    THEN ParseDigits(s, i + 1, 10 * n + DigitVal[s[i]])
    ELSE POk(NumberV(n), i)

\* The integer part of a number: a single 0, or a digit from 1 to 9 and the
\* digits after it.
ParseInteger(s, i) ==
    IF s[i] = "0" THEN POk(NumberV(0), i + 1)
    ELSE ParseDigits(s, i + 1, DigitVal[s[i]])

\* m times ten to the power e.v.v as a double: Infinity beyond its range.
Scaled(m, e) ==
    POk(NumberV(IF m = 0 THEN 0
                ELSE IF e.v.v > MaxExponent THEN Infinity
                ELSE m * 10 ^ e.v.v),
        e.p)

\* r is the integer part just read: an exponent (e or E and digits) may
\* follow it.
ParseExponent(s, r) ==
    IF r.p <= Len(s) /\ s[r.p] \in {"e", "E"}
    THEN IF r.p + 1 <= Len(s) /\ s[r.p + 1] \in Digits
         THEN Scaled(r.v.v, ParseDigits(s, r.p + 2, DigitVal[s[r.p + 1]]))
         ELSE PFail
    ELSE r

ParseNumber(s, i) == ParseExponent(s, ParseInteger(s, i))

NullText == <<"n", "u", "l", "l">>

\* i is at the n of the literal null.
ParseNull(s, i) ==
    IF i + 3 <= Len(s) /\ SubSeq(s, i, i + 3) = NullText
    THEN POk(NullV, i + 4)
    ELSE PFail

\* Sets member k of the member list of an object.
SetMember(ms, k, val) ==
    IF \E j \in 1..Len(ms) : ms[j][1] = k
    THEN [j \in 1..Len(ms) |-> IF ms[j][1] = k THEN <<k, val>> ELSE ms[j]]
    ELSE Append(ms, <<k, val>>)

RECURSIVE ParseValue(_, _)
RECURSIVE ParseElements(_, _, _)
RECURSIVE AfterElement(_, _, _)
RECURSIVE ParseMembers(_, _, _)
RECURSIVE AfterKey(_, _, _)
RECURSIVE AfterMember(_, _, _)

\* i is at the first character of an array element; acc holds the elements
\* read so far.
ParseElements(s, i, acc) ==
    IF i <= Len(s) /\ s[i] = "]" /\ acc = <<>> THEN POk(ArrayV(<<>>), i + 1)
    ELSE AfterElement(s, acc, ParseValue(s, i))

\* r is the element just read: a "]" or a "," must follow.
AfterElement(s, acc, r) ==
    IF ~r.ok \/ SkipWS(s, r.p) > Len(s) THEN PFail
    ELSE IF s[SkipWS(s, r.p)] = "]"
         THEN POk(ArrayV(Append(acc, r.v)), SkipWS(s, r.p) + 1)
    ELSE IF s[SkipWS(s, r.p)] = ","
         THEN ParseElements(s, SkipWS(s, SkipWS(s, r.p) + 1), Append(acc, r.v))
    ELSE PFail

\* i is at the first character of an object member; acc holds the members
\* read so far.
ParseMembers(s, i, acc) ==
    IF i <= Len(s) /\ s[i] = "}" /\ acc = <<>> THEN POk(ObjectV(<<>>), i + 1)
    ELSE IF i > Len(s) \/ s[i] # DQ THEN PFail
    ELSE AfterKey(s, acc, ParseStringBody(s, i + 1, <<>>))

\* k is the key just read: a ":" and a value must follow.
AfterKey(s, acc, k) ==
    IF ~k.ok \/ SkipWS(s, k.p) > Len(s) \/ s[SkipWS(s, k.p)] # ":" THEN PFail
    ELSE AfterMember(s, [ms |-> acc, key |-> k.v.v],
                     ParseValue(s, SkipWS(s, SkipWS(s, k.p) + 1)))

\* r is the value of member m.key: a "}" or a "," must follow.
AfterMember(s, m, r) ==
    IF ~r.ok \/ SkipWS(s, r.p) > Len(s) THEN PFail
    ELSE IF s[SkipWS(s, r.p)] = "}"
         THEN POk(ObjectV(SetMember(m.ms, m.key, r.v)), SkipWS(s, r.p) + 1)
    ELSE IF s[SkipWS(s, r.p)] = ","
         THEN ParseMembers(s, SkipWS(s, SkipWS(s, r.p) + 1),
                           SetMember(m.ms, m.key, r.v))
    ELSE PFail

\* i is at the first character of a value (whitespace already skipped).
ParseValue(s, i) ==
    IF i > Len(s) THEN PFail
    ELSE IF s[i] = DQ THEN ParseStringBody(s, i + 1, <<>>)
    ELSE IF s[i] \in Digits THEN ParseNumber(s, i)
    ELSE IF s[i] = "[" THEN ParseElements(s, SkipWS(s, i + 1), <<>>)
    ELSE IF s[i] = "{" THEN ParseMembers(s, SkipWS(s, i + 1), <<>>)
    ELSE IF s[i] = "n" THEN ParseNull(s, i)
    ELSE PFail

\* r is the value read from the start of s: only whitespace may follow.
WholeText(s, r) ==
    IF r.ok /\ SkipWS(s, r.p) = Len(s) + 1
    THEN [ok |-> TRUE, value |-> r.v]
    ELSE [ok |-> FALSE, value |-> NumberV(0)]

\* JSON.parse(text): ok and the value, or a SyntaxError (ok = FALSE).
JsonParse(s) == WholeText(s, ParseValue(s, SkipWS(s, 1)))

\* ------------------------------------------------------------------------
\* JSON.stringify
\* ------------------------------------------------------------------------
DigitChar(d) == CHOOSE c \in Digits : DigitVal[c] = d

RECURSIVE NumberText(_)
NumberText(n) ==
    IF n < 10 THEN <<DigitChar(n)>>
    ELSE Append(NumberText(n \div 10), DigitChar(n % 10))

\* The escape JSON.stringify writes for one character of a string.
QuoteChar(c) ==
    CASE c = DQ -> <<BS, DQ>>
      [] c = BS -> <<BS, BS>>
      [] c = LF -> <<BS, "n">>
      [] c = CR -> <<BS, "r">>
      [] c = TAB -> <<BS, "t">>
      [] OTHER -> <<c>>

RECURSIVE QuoteBody(_)
QuoteBody(s) ==
    IF s = <<>> THEN <<>> ELSE QuoteChar(s[1]) \o QuoteBody(Tail(s))

\* JSON.stringify of a string
Quote(s) == <<DQ>> \o QuoteBody(s) \o <<DQ>>

RECURSIVE JsonStringify(_)
RECURSIVE StringifyElements(_)
RECURSIVE StringifyMembers(_)

JsonStringify(val) ==
    CASE val.t = "number" -> IF val.v = Infinity THEN NullText ELSE NumberText(val.v)
      [] val.t = "null" -> NullText
      [] val.t = "string" -> Quote(val.v)
      [] val.t = "array" -> <<"[">> \o StringifyElements(val.v) \o <<"]">>
      [] val.t = "object" -> <<"{">> \o StringifyMembers(val.v) \o <<"}">>

StringifyElements(xs) ==
    IF xs = <<>> THEN <<>>
    ELSE JsonStringify(xs[1])
           \o (IF Len(xs) > 1 THEN <<",">> ELSE <<>>)
           \o StringifyElements(Tail(xs))

StringifyMembers(ms) ==
    IF ms = <<>> THEN <<>>
    ELSE Quote(ms[1][1]) \o <<":">> \o JsonStringify(ms[1][2])
           \o (IF Len(ms) > 1 THEN <<",">> ELSE <<>>)
           \o StringifyMembers(Tail(ms))

\* JSON.stringify(value, null, 2): a container that is not empty is written
\* with one element or member per line, indented by two spaces per level,
\* and a space after the colon of a member; ind is the indentation of the
\* line the value starts on.
RECURSIVE StringifyPretty(_, _)
RECURSIVE PrettyElements(_, _)
RECURSIVE PrettyMembers(_, _)

StringifyPretty(val, ind) ==
    CASE val.t = "array" /\ val.v # <<>> ->
           <<"[", LF>> \o PrettyElements(val.v, ind \o <<SP, SP>>) \o <<LF>> \o ind \o <<"]">>
      [] val.t = "object" /\ val.v # <<>> ->
           <<"{", LF>> \o PrettyMembers(val.v, ind \o <<SP, SP>>) \o <<LF>> \o ind \o <<"}">>
      [] OTHER -> JsonStringify(val)

PrettyElements(xs, ind) ==
    IF xs = <<>> THEN <<>>
    ELSE ind \o StringifyPretty(xs[1], ind)
           \o (IF Len(xs) > 1 THEN <<",", LF>> ELSE <<>>)
           \o PrettyElements(Tail(xs), ind)

PrettyMembers(ms, ind) ==
    IF ms = <<>> THEN <<>>
    ELSE ind \o Quote(ms[1][1]) \o <<":", SP>> \o StringifyPretty(ms[1][2], ind)
           \o (IF Len(ms) > 1 THEN <<",", LF>> ELSE <<>>)
           \o PrettyMembers(Tail(ms), ind)

JsonStringifyPretty(val) == StringifyPretty(val, <<>>)


\* ------------------------------------------------------------------------
\* smartParseJsonInput and its local helpers
\* ------------------------------------------------------------------------
DefaultMaxDepth == 25

\* (s ?? '').replace(/^\uFEFF/, '').trim()
normalize(s) == Trim(IF Len(s) > 0 /\ s[1] = BOM THEN Tail(s) ELSE s)

tryParse(text) == JsonParse(text)

\* tryDecodeAsJsonStringLiteral without the newline normalisation.
tryDecodeAsJsonStringLiteral_Verbatim(text) == JsonParse(<<DQ>> \o text \o <<DQ>>)

\* Wraps the text in double quotes after turning raw CR and LF into their
\* escapes; backslashes and quotes are left as they are.
tryDecodeAsJsonStringLiteral(text) ==
    LET normalized == ReplaceAll(ReplaceAll(text, CR, <<BS, "r">>), LF, <<BS, "n">>)
    IN JsonParse(<<DQ>> \o normalized \o <<DQ>>)

stripOuterNonJsonQuotes(text) ==
    LET t == normalize(text) IN
    IF Len(t) < 2 THEN t
    ELSE IF (t[1] = SQ /\ t[Len(t)] = SQ) \/ (t[1] = BT /\ t[Len(t)] = BT)
         THEN Trim(SubSeq(t, 2, Len(t) - 1))
         ELSE t

\* /\\["\\\/bfnrtu]/.test(text)
LooksEscaped(text) ==
    \E k \in 1..(Len(text) - 1) :
        text[k] = BS /\ text[k + 1] \in {DQ, BS, "/", "b", "f", "n", "r", "t", "u"}

NoError == "none"
NoValue == [t |-> "none", v |-> 0]

\* Frame without the initial stripOuterNonJsonQuotes(raw).
Frame_NoStrip(raw, maxDepth) ==
    [maxDepth |-> maxDepth,
     current |-> raw,
     depth |-> 0,
     lastError |-> NoError,
     seen |-> {},
     i |-> 0,
     pc |-> "loop",
     last |-> "none",
     value |-> NoValue,
     escapeDepth |-> 0,
     maxDepthTried |-> 0]

\* The frame of one call, at the head of the for loop: i passes done, last
\* the way the latest pass went.
Frame(raw, maxDepth) ==
    [maxDepth |-> maxDepth,
     current |-> stripOuterNonJsonQuotes(raw),
     depth |-> 0,
     lastError |-> NoError,
     seen |-> {},
     i |-> 0,
     pc |-> "loop",
     last |-> "none",
     value |-> NoValue,
     escapeDepth |-> 0,
     maxDepthTried |-> 0]

\* What one pass of the loop decides: the way it goes, and the new current
\* or the value returned.
Continue(way, text) == [way |-> way, current |-> text, value |-> NoValue]
Return(v) == [way |-> "return", current |-> <<>>, value |-> v]
Stop(way) == [way |-> way, current |-> <<>>, value |-> NoValue]

\* TryNext without the next !== current test.
TryNext_NoSelfTest(current, next) ==
    IF next # <<>> THEN [way |-> "decode", current |-> next, value |-> NoValue]
    ELSE [way |-> "stop", current |-> <<>>, value |-> NoValue]

\* 3) next is the trimmed text decoded from current as a string literal.
TryNext(current, next) ==
    IF next # <<>> /\ next # current THEN Continue("decode", next)
    ELSE Stop("stop")

\* TryDecoded that returns the decoded text as a string value.
TryDecoded_ReturnsString(current, decoded) ==
    IF decoded.ok /\ decoded.value.t = "string"
    THEN [way |-> "return", current |-> <<>>, value |-> decoded.value]
    ELSE [way |-> "stop", current |-> <<>>, value |-> NoValue]

\* 3) decoded is tryDecodeAsJsonStringLiteral(current).
TryDecoded(current, decoded) ==
    IF decoded.ok /\ decoded.value.t = "string"
    THEN TryNext(current, normalize(decoded.value.v))
    ELSE Stop("stop")

\* TryStripped that continues without replacing current.
TryStripped_KeepsCurrent(current, stripped) ==
    IF stripped # current
    THEN [way |-> "strip", current |-> current, value |-> NoValue]
    ELSE TryDecoded(current, tryDecodeAsJsonStringLiteral(current))

\* 2) stripped is stripOuterNonJsonQuotes(current).
TryStripped(current, stripped) ==
    IF stripped # current THEN Continue("strip", stripped)
    ELSE TryDecoded(current, tryDecodeAsJsonStringLiteral(current))

\* TryInner that never unwraps a parsed string.
TryInner_NoUnwrap(current, v, inner) == [way |-> "return", current |-> <<>>, value |-> v]

\* TryInner that returns the trimmed string instead of the parsed one.
TryInner_ReturnsInner(current, v, inner) ==
    IF inner # <<>> /\ inner # current /\ tryParse(inner).ok
    THEN [way |-> "unwrapJson", current |-> inner, value |-> NoValue]
    ELSE IF inner # <<>> /\ inner # current /\ LooksEscaped(inner)
    THEN [way |-> "unwrapEscaped", current |-> inner, value |-> NoValue]
    ELSE [way |-> "return", current |-> <<>>, value |-> StringV(inner)]

\* 1) v is the string parsed from current, inner its trimmed content.
TryInner(current, v, inner) ==
    IF inner # <<>> /\ inner # current /\ tryParse(inner).ok
    THEN Continue("unwrapJson", inner)
    ELSE IF inner # <<>> /\ inner # current /\ LooksEscaped(inner)
    THEN Continue("unwrapEscaped", inner)
    ELSE Return(v)

\* 1) direct is tryParse(current).
TryDirect(current, direct) ==
    IF direct.ok
    THEN IF direct.value.t = "string"
         THEN TryInner(current, direct.value, normalize(direct.value.v))
         ELSE Return(direct.value)
    ELSE TryStripped(current, stripOuterNonJsonQuotes(current))

\* The way one pass goes from frame f.
Branch(f) ==
    IF f.i >= f.maxDepth THEN Stop("exhausted")
    ELSE IF f.current \in f.seen THEN Stop("cycle")
    ELSE TryDirect(f.current, tryParse(f.current))

\* Throw whose metadata do not take the depth counter.
Throw_NoDepth(f) ==
    [f EXCEPT !.pc = "throw",
              !.lastError = IF f.lastError = NoError THEN "Error" ELSE f.lastError,
              !.maxDepthTried = f.maxDepth]

\* The error thrown at the end of the function: lastError, or a fresh
\* Error('Invalid JSON'), with the smartParse metadata attached
\* (maxDepthTried and escapeDepth of the frame).
Throw(f) ==
    [f EXCEPT !.pc = "throw",
              !.lastError = IF f.lastError = NoError THEN "Error" ELSE f.lastError,
              !.escapeDepth = f.depth,
              !.maxDepthTried = f.maxDepth]

\* Apply where a quote strip does not use up a pass.
Apply_StripFree(f, b) ==
    IF b.way \in {"exhausted", "cycle"} THEN Throw([f EXCEPT !.last = b.way])
    ELSE IF b.way = "return"
    THEN [f EXCEPT !.seen = f.seen \cup {f.current}, !.i = f.i + 1, !.last = b.way,
                   !.pc = "return", !.value = b.value, !.escapeDepth = f.depth]
    ELSE IF b.way \in {"unwrapJson", "unwrapEscaped"}
    THEN [f EXCEPT !.seen = f.seen \cup {f.current}, !.i = f.i + 1, !.last = b.way,
                   !.current = b.current, !.depth = f.depth + 1]
    ELSE IF b.way = "strip"
    THEN [f EXCEPT !.seen = f.seen \cup {f.current}, !.last = b.way,
                   !.current = b.current, !.lastError = "SyntaxError"]
    ELSE IF b.way = "decode"
    THEN [f EXCEPT !.seen = f.seen \cup {f.current}, !.i = f.i + 1, !.last = b.way,
                   !.current = b.current, !.depth = f.depth + 1,
                   !.lastError = "SyntaxError"]
    ELSE Throw([f EXCEPT !.seen = f.seen \cup {f.current}, !.i = f.i + 1,
                         !.last = b.way, !.lastError = "SyntaxError"])

\* Apply where a quote strip counts as a layer.
Apply_StripDeepens(f, b) ==
    IF b.way \in {"exhausted", "cycle"} THEN Throw([f EXCEPT !.last = b.way])
    ELSE IF b.way = "return"
    THEN [f EXCEPT !.seen = f.seen \cup {f.current}, !.i = f.i + 1, !.last = b.way,
                   !.pc = "return", !.value = b.value, !.escapeDepth = f.depth]
    ELSE IF b.way \in {"unwrapJson", "unwrapEscaped"}
    THEN [f EXCEPT !.seen = f.seen \cup {f.current}, !.i = f.i + 1, !.last = b.way,
                   !.current = b.current, !.depth = f.depth + 1]
    ELSE IF b.way = "strip"
    THEN [f EXCEPT !.seen = f.seen \cup {f.current}, !.i = f.i + 1, !.last = b.way,
                   !.current = b.current, !.depth = f.depth + 1,
                   !.lastError = "SyntaxError"]
    ELSE IF b.way = "decode"
    THEN [f EXCEPT !.seen = f.seen \cup {f.current}, !.i = f.i + 1, !.last = b.way,
                   !.current = b.current, !.depth = f.depth + 1,
                   !.lastError = "SyntaxError"]
    ELSE Throw([f EXCEPT !.seen = f.seen \cup {f.current}, !.i = f.i + 1,
                         !.last = b.way, !.lastError = "SyntaxError"])

\* Apply whose return reports the passes run instead of the depth counter.
Apply_ReturnsPasses(f, b) ==
    IF b.way \in {"exhausted", "cycle"} THEN Throw([f EXCEPT !.last = b.way])
    ELSE IF b.way = "return"
    THEN [f EXCEPT !.seen = f.seen \cup {f.current}, !.i = f.i + 1, !.last = b.way,
                   !.pc = "return", !.value = b.value, !.escapeDepth = f.i]
    ELSE IF b.way \in {"unwrapJson", "unwrapEscaped"}
    THEN [f EXCEPT !.seen = f.seen \cup {f.current}, !.i = f.i + 1, !.last = b.way,
                   !.current = b.current, !.depth = f.depth + 1]
    ELSE IF b.way = "strip"
    THEN [f EXCEPT !.seen = f.seen \cup {f.current}, !.i = f.i + 1, !.last = b.way,
                   !.current = b.current, !.lastError = "SyntaxError"]
    ELSE IF b.way = "decode"
    THEN [f EXCEPT !.seen = f.seen \cup {f.current}, !.i = f.i + 1, !.last = b.way,
                   !.current = b.current, !.depth = f.depth + 1,
                   !.lastError = "SyntaxError"]
    ELSE Throw([f EXCEPT !.seen = f.seen \cup {f.current}, !.i = f.i + 1,
                         !.last = b.way, !.lastError = "SyntaxError"])

\* Frame f after a pass that decided b.
Apply(f, b) ==
    IF b.way \in {"exhausted", "cycle"} THEN Throw([f EXCEPT !.last = b.way])
    ELSE IF b.way = "return"
    THEN [f EXCEPT !.seen = f.seen \cup {f.current}, !.i = f.i + 1, !.last = b.way,
                   !.pc = "return", !.value = b.value, !.escapeDepth = f.depth]
    ELSE IF b.way \in {"unwrapJson", "unwrapEscaped"}
    THEN [f EXCEPT !.seen = f.seen \cup {f.current}, !.i = f.i + 1, !.last = b.way,
                   !.current = b.current, !.depth = f.depth + 1]
    ELSE IF b.way = "strip"
    THEN [f EXCEPT !.seen = f.seen \cup {f.current}, !.i = f.i + 1, !.last = b.way,
                   !.current = b.current, !.lastError = "SyntaxError"]
    ELSE IF b.way = "decode"
    THEN [f EXCEPT !.seen = f.seen \cup {f.current}, !.i = f.i + 1, !.last = b.way,
                   !.current = b.current, !.depth = f.depth + 1,
                   !.lastError = "SyntaxError"]
    ELSE Throw([f EXCEPT !.seen = f.seen \cup {f.current}, !.i = f.i + 1,
                         !.last = b.way, !.lastError = "SyntaxError"])

\* One pass of the loop (or the exit from it), as a function of the frame.
LoopBody(f) == Apply(f, Branch(f))

RECURSIVE RunLoop(_)
RunLoop(f) == IF f.pc = "loop" THEN RunLoop(LoopBody(f)) ELSE f

\* smartParseJsonInput(raw, { maxDepth }): the final frame; pc = "return"
\* with value and escapeDepth, or pc = "throw".
smartParseJsonInput(raw, maxDepth) == RunLoop(Frame(raw, maxDepth))

\* ------------------------------------------------------------------------
\* analyzeJsonInput
\* ------------------------------------------------------------------------
\* Classify that reports every parsed input as escaped.
Classify_AlwaysEscaped(r) ==
    IF r.pc = "return"
    THEN [form |-> IF r.escapeDepth >= 0 THEN "escaped" ELSE "json",
          escapeDepth |-> r.escapeDepth]
    ELSE [form |-> "unknown", escapeDepth |-> 0]

\* Classify without the catch: the error of the normalizer leaves the function.
Classify_NoCatch(r) ==
    IF r.pc = "return"
    THEN [form |-> IF r.escapeDepth > 0 THEN "escaped" ELSE "json",
          escapeDepth |-> r.escapeDepth]
    ELSE [form |-> r.lastError, escapeDepth |-> r.escapeDepth]

\* Classify that reports the depth reached when the normalizer fails.
Classify_KeepsDepth(r) ==
    IF r.pc = "return"
    THEN [form |-> IF r.escapeDepth > 0 THEN "escaped" ELSE "json",
          escapeDepth |-> r.escapeDepth]
    ELSE [form |-> "unknown", escapeDepth |-> r.escapeDepth]

\* r is the outcome of the smartParseJsonInput call in the try block.
Classify(r) ==
    IF r.pc = "return"
    THEN [form |-> IF r.escapeDepth > 0 THEN "escaped" ELSE "json",
          escapeDepth |-> r.escapeDepth]
    ELSE [form |-> "unknown", escapeDepth |-> 0]

analyzeJsonInput(raw, maxDepth) ==
    IF Trim(raw) = <<>> THEN [form |-> "unknown", escapeDepth |-> 0]
    ELSE Classify(smartParseJsonInput(Trim(raw), maxDepth))

\* ------------------------------------------------------------------------
\* executeUnescape
\* ------------------------------------------------------------------------
\* EscapeRawText that escapes the double quotes only.
EscapeRawText_QuotesOnly(raw) == ReplaceAll(raw, DQ, <<BS, DQ>>)

\* raw.replace(/\\/g, '\\\\').replace(/"/g, '\\"')
EscapeRawText(raw) ==
    ReplaceAll(ReplaceAll(raw, BS, <<BS, BS>>), DQ, <<BS, DQ>>)

Unescaped(text, rung) == [ok |-> TRUE, value |-> text, rung |-> rung]
UnescapeThrows == [ok |-> FALSE, value |-> <<>>, rung |-> 3]

\* Rung 3: quoted is the parse of the escaped, quoted text; a SyntaxError
\* leaves the function.
Rung3(quoted) ==
    IF quoted.ok THEN Unescaped(quoted.value.v, 3) ELSE UnescapeThrows

\* Rung2 that always escapes raw again before quoting it.
Rung2_ReEscapes(raw, simpleQuoted) ==
    Rung3(JsonParse(<<DQ>> \o EscapeRawText(raw) \o <<DQ>>))

\* Rung 2: simpleQuoted is the parse of the text wrapped in quotes verbatim.
Rung2(raw, simpleQuoted) ==
    IF simpleQuoted.ok THEN Unescaped(simpleQuoted.value.v, 2)
    ELSE Rung3(JsonParse(<<DQ>> \o EscapeRawText(raw) \o <<DQ>>))

\* Rung1 without the direct parse.
Rung1_SkipsDirect(raw, directParsed) ==
    Rung2(raw, JsonParse(<<DQ>> \o raw \o <<DQ>>))

\* Rung 1: directParsed is the parse of the text as it is.
Rung1(raw, directParsed) ==
    IF directParsed.ok /\ directParsed.value.t = "string"
    THEN Unescaped(directParsed.value.v, 1)
    ELSE Rung2(raw, JsonParse(<<DQ>> \o raw \o <<DQ>>))

\* The string returned and the rung that returned it (0: the early return
\* for empty input), or ok = FALSE when the last JSON.parse throws.
executeUnescape(raw) ==
    IF raw = <<>> THEN Unescaped(raw, 0) ELSE Rung1(raw, JsonParse(raw))

\* ------------------------------------------------------------------------
\* The standalone getEscapeDepth (src/app.js)
\* ------------------------------------------------------------------------
maxIterations == 20

\* The second try block of tryUnescapeUnquoted.
UnquotedEscaped(quoted) ==
    IF quoted.ok /\ quoted.value.t = "string" THEN quoted
    ELSE [ok |-> FALSE, value |-> NoValue]

\* The first try block of tryUnescapeUnquoted, then the second.
UnquotedSimple(text, simpleQuoted) ==
    IF simpleQuoted.ok /\ simpleQuoted.value.t = "string" THEN simpleQuoted
    ELSE UnquotedEscaped(JsonParse(<<DQ>> \o EscapeRawText(text) \o <<DQ>>))

tryUnescapeUnquoted(text) ==
    UnquotedSimple(text, JsonParse(<<DQ>> \o text \o <<DQ>>))

RECURSIVE EscapeDepthLoop(_, _, _)
RECURSIVE ProbeInner(_, _, _, _)
RECURSIVE ProbeParsed(_, _, _, _)
RECURSIVE ProbeDirect(_, _, _, _)

\* ProbeInner that unwraps without counting the layer.
ProbeInner_NoCount(current, depth, iterations, inner) ==
    IF inner # current /\ tryParse(inner).ok
    THEN EscapeDepthLoop(inner, depth, iterations)
    ELSE depth

\* inner is the trimmed string parsed from current.
ProbeInner(current, depth, iterations, inner) ==
    IF inner # current /\ tryParse(inner).ok
    THEN EscapeDepthLoop(inner, depth + 1, iterations)
    ELSE depth

\* parsed is the parse of current, direct or through tryUnescapeUnquoted.
ProbeParsed(current, depth, iterations, parsed) ==
    IF ~parsed.ok THEN depth
    ELSE IF parsed.value.t = "string"
    THEN ProbeInner(current, depth, iterations, Trim(parsed.value.v))
    ELSE depth

\* direct is tryParse(current).
ProbeDirect(current, depth, iterations, direct) ==
    IF direct.ok THEN ProbeParsed(current, depth, iterations, direct)
    ELSE ProbeParsed(current, depth, iterations, tryUnescapeUnquoted(current))

\* The while loop, from its head with the given locals.
EscapeDepthLoop(current, depth, iterations) ==
    IF iterations >= maxIterations THEN depth
    ELSE ProbeDirect(current, depth, iterations + 1, tryParse(current))

getEscapeDepth(raw) ==
    IF Trim(raw) = <<>> THEN 0 ELSE EscapeDepthLoop(Trim(raw), 0, 0)

\* ------------------------------------------------------------------------
\* The standalone detectJsonInputForm (src/app.js)
\* ------------------------------------------------------------------------
Literals == {<<"n", "u", "l", "l">>, <<"t", "r", "u", "e">>, <<"f", "a", "l", "s", "e">>}

\* t.startsWith('{') || t.startsWith('[') || t === 'null' || t === 'true'
\* || t === 'false' || /^-?\d/.test(t), on the trimmed text
LooksLikeJsonTrimmed(t) ==
    /\ t # <<>>
    /\ \/ t[1] \in {"{", "["}
       \/ t \in Literals
       \/ t[1] \in Digits
       \/ (Len(t) >= 2 /\ t[1] = "-" /\ t[2] \in Digits)

looksLikeJson(text) == LooksLikeJsonTrimmed(Trim(text))

\* looksLikeJson(inner) && tryParse(inner).ok
InnerIsJson(inner) == looksLikeJson(inner) /\ tryParse(inner).ok

\* decoded is the parse of a quoted text: its trimmed string is JSON.
DetectDecoded(decoded) ==
    decoded.ok /\ decoded.value.t = "string" /\ InnerIsJson(Trim(decoded.value.v))

\* The second try block: s taken as raw text that needs escaping.
DetectEscapedRaw(s) ==
    IF DetectDecoded(JsonParse(<<DQ>> \o EscapeRawText(s) \o <<DQ>>))
    THEN "escaped" ELSE "unknown"

\* The first try block: s wrapped in quotes verbatim.
DetectSimpleQuoted(s) ==
    IF DetectDecoded(JsonParse(<<DQ>> \o s \o <<DQ>>))
    THEN "escaped" ELSE DetectEscapedRaw(s)

\* asJson is tryParse(s).
DetectDirect(s, asJson) ==
    IF asJson.ok
    THEN IF asJson.value.t = "string"
         THEN (IF DetectDecoded(asJson) THEN "escaped" ELSE "unknown")
         ELSE "json"
    ELSE DetectSimpleQuoted(s)

detectJsonInputForm(raw) ==
    IF Trim(raw) = <<>> THEN "unknown"
    ELSE DetectDirect(Trim(raw), tryParse(Trim(raw)))

\* ------------------------------------------------------------------------
\* Inputs
\* ------------------------------------------------------------------------
\* Every text of at most MaxLen characters of Alphabet is an input.
MaxLen == 3

\* Documents are string-serialized up to MaxLayers times.
MaxLayers == 2

\* maxDepth is 0..MaxSmallDepth or the default.
MaxSmallDepth == 2

Alphabet == {DQ, BS, "n", "1", "[", "]", SQ, LF, SP}

ShortTexts == UNION {[1..k -> Alphabet] : k \in 0..MaxLen}

\* {"a":1}, ["n"], [] and 1
NonStringDocs ==
    {ObjectV(<< << <<"a">>, NumberV(1) >> >>),
     ArrayV(<<StringV(<<"n">>)>>),
     ArrayV(<<>>),
     NumberV(1)}

\* The strings n, 1, \n (a backslash and an n), "n b" and a byte-order mark
\* followed by 1.
StringDocs ==
    {StringV(<<"n">>), StringV(<<"1">>), StringV(<<BS, "n">>),
     StringV(<<"n", SP, "b">>), StringV(<<BOM, "1">>)}

Docs == NonStringDocs \cup StringDocs

\* E_N: D serialized once, then string-serialized N more times.
RECURSIVE Layered(_, _)
Layered(D, N) == IF N = 0 THEN JsonStringify(D) ELSE Quote(Layered(D, N - 1))

\* E_N for every document D and every N of the model.
LayeredText == [D \in Docs, N \in 0..MaxLayers |-> Layered(D, N)]

LayeredTexts == {Layered(D, N) : D \in Docs, N \in 0..MaxLayers}

\* A layered text without its enclosing double quotes.
Fragments == {QuoteBody(Layered(D, N)) : D \in Docs, N \in 0..(MaxLayers - 1)}

\* Layered texts and fragments inside single quotes, backticks or both, or
\* between a byte-order mark and trailing whitespace.
WrappedTexts ==
    UNION {{<<SQ>> \o t \o <<SQ>>, <<BT>> \o t \o <<BT>>,
            <<SQ, BT>> \o t \o <<BT, SQ>>, <<BOM, SP>> \o t \o <<LF>>} :
             t \in LayeredTexts \cup Fragments}

\* ["n"] written with a line feed, a tab or a space after the bracket.
SpacedTexts == {<<"[", w, DQ, "n", DQ, "]">> : w \in {LF, TAB, SP}}

\* text.replace(/"/g, '\\"'): the double quotes backslash-escaped once.
EscapeQuotes(text) == ReplaceAll(text, DQ, <<BS, DQ>>)

\* The JSON document texts of the model that hold a double quote.
QuotedJsonTexts ==
    {t \in ShortTexts \cup LayeredTexts \cup SpacedTexts :
        (\E k \in 1..Len(t) : t[k] = DQ) /\ JsonParse(t).ok}

\* Such documents with their quotes escaped and no enclosing quotes.
EscapedQuoteFragments == {EscapeQuotes(t) : t \in QuotedJsonTexts}

Inputs ==
    ShortTexts \cup LayeredTexts \cup Fragments \cup WrappedTexts
        \cup SpacedTexts \cup EscapedQuoteFragments

MaxDepths == (0..MaxSmallDepth) \cup {DefaultMaxDepth}

\* ------------------------------------------------------------------------
\* The page: the input text, the escape and unescape buttons with the depth
\* hint, the error toast, the tree shown, and the debounce timer
\* ------------------------------------------------------------------------
\* The 800 ms of the debounce, in ticks of 400 ms.
DebounceTicks == 2

\* At most MaxTimers timers are pending at a time.
MaxTimers == 2

NoTimer == 0

\* The page after the script has run: the input is empty and
\* updateEscapeButtons() has hidden both buttons and the hint.  since is the
\* time since the latest input event (at most DebounceTicks are counted),
\* runs the processJSON runs of the debounce timer since that event (at most
\* two are counted), last the latest handler and ok whether it wrote the
\* input.
UiInit ==
    [input |-> <<>>,
     escapeHidden |-> TRUE,
     unescapeHidden |-> TRUE,
     hintHidden |-> TRUE,
     hint |-> 0,
     error |-> "none",
     output |-> NoValue,
     timers |-> {},
     debounceTimer |-> NoTimer,
     since |-> DebounceTicks,
     runs |-> 0,
     last |-> "none",
     ok |-> FALSE]

\* detectJsonInputForm(raw) and getEscapeDepth(raw) of the page: the form and
\* the escapeDepth of analyzeJsonInput(raw).
analyzeDefault(text) == analyzeJsonInput(text, DefaultMaxDepth)

\* ShowButtons that shows the hint from depth 1 on.
ShowButtons_HintAtOne(u, a) ==
    IF a.form = "escaped"
    THEN [u EXCEPT !.unescapeHidden = FALSE, !.escapeHidden = TRUE,
                   !.hintHidden = ~(a.escapeDepth >= 1),
                   !.hint = IF a.escapeDepth >= 1 THEN a.escapeDepth ELSE u.hint]
    ELSE IF a.form = "json"
    THEN [u EXCEPT !.escapeHidden = FALSE, !.unescapeHidden = TRUE, !.hintHidden = TRUE]
    ELSE [u EXCEPT !.escapeHidden = TRUE, !.unescapeHidden = TRUE, !.hintHidden = TRUE]

\* The three branches of updateEscapeButtons; a holds the form and the depth
\* of the input.
ShowButtons(u, a) ==
    IF a.form = "escaped"
    THEN [u EXCEPT !.unescapeHidden = FALSE, !.escapeHidden = TRUE,
                   !.hintHidden = ~(a.escapeDepth > 1),
                   !.hint = IF a.escapeDepth > 1 THEN a.escapeDepth ELSE u.hint]
    ELSE IF a.form = "json"
    THEN [u EXCEPT !.escapeHidden = FALSE, !.unescapeHidden = TRUE, !.hintHidden = TRUE]
    ELSE [u EXCEPT !.escapeHidden = TRUE, !.unescapeHidden = TRUE, !.hintHidden = TRUE]

updateEscapeButtons(u) == ShowButtons(u, analyzeDefault(u.input))

showError(u, msg) == [u EXCEPT !.error = msg]

hideError(u) == [u EXCEPT !.error = "none"]

\* r is the outcome of smartParseJsonInput on the trimmed input: the tree
\* of the value is shown, or the error.
Rendered(u, r) ==
    IF r.pc = "return" THEN [u EXCEPT !.output = r.value]
    ELSE showError(u, "Invalid JSON")

processJSON(u) ==
    IF Trim(u.input) = <<>> THEN [u EXCEPT !.output = NoValue]
    ELSE Rendered(updateEscapeButtons(u),
                  smartParseJsonInput(Trim(u.input), DefaultMaxDepth))

\* The end of the four handlers that rewrite the input: the new text, then
\* updateEscapeButtons() and processJSON().
Rewritten(u, text) ==
    processJSON(updateEscapeButtons([u EXCEPT !.input = text, !.ok = TRUE]))

\* The handler returns at once (blank input) or ends in its catch block.
Untouched(u) == [u EXCEPT !.ok = FALSE]

FormatParsed(u, r) ==
    IF r.pc = "return" THEN Rewritten(u, JsonStringifyPretty(r.value))
    ELSE showError(Untouched(u), "Invalid JSON")

formatInput(u) ==
    IF Trim(u.input) = <<>> THEN Untouched(u)
    ELSE FormatParsed(u, smartParseJsonInput(Trim(u.input), DefaultMaxDepth))

MinifyParsed(u, r) ==
    IF r.pc = "return" THEN Rewritten(u, JsonStringify(r.value))
    ELSE showError(Untouched(u), "Invalid JSON")

minifyInput(u) ==
    IF Trim(u.input) = <<>> THEN Untouched(u)
    ELSE MinifyParsed(u, smartParseJsonInput(Trim(u.input), DefaultMaxDepth))

\* JSON.stringify(JSON.stringify(jsonData))
EscapedText(v) == Quote(JsonStringify(v))

EscapeParsed(u, r) ==
    IF r.pc = "return" THEN Rewritten(u, EscapedText(r.value))
    ELSE showError(Untouched(u), "Invalid JSON")

escapeJsonInput(u) ==
    IF Trim(u.input) = <<>> THEN Untouched(u)
    ELSE EscapeParsed(u, smartParseJsonInput(Trim(u.input), DefaultMaxDepth))

\* The branch form === 'json': asJson is JSON.parse(parsed), whose error goes
\* to the catch block.
UnescapePretty(u, asJson) ==
    IF asJson.ok THEN Rewritten(u, JsonStringifyPretty(asJson.value))
    ELSE showError(Untouched(u), "Unescape failed")

\* parsed is the outcome of executeUnescape on the trimmed input.
UnescapeParsed(u, parsed) ==
    IF ~parsed.ok THEN showError(Untouched(u), "Unescape failed")
    ELSE IF analyzeDefault(parsed.value).form = "json"
    THEN UnescapePretty(u, JsonParse(parsed.value))
    ELSE Rewritten(u, parsed.value)

unescapeJsonInput(u) ==
    IF Trim(u.input) = <<>> THEN Untouched(u)
    ELSE UnescapeParsed(u, executeUnescape(Trim(u.input)))

clearAll(u) ==
    hideError(updateEscapeButtons([u EXCEPT !.input = <<>>, !.output = NoValue,
                                            !.ok = TRUE]))

\* clearTimeout(id)
clearTimeout(u, id) == [u EXCEPT !.timers = {x \in u.timers : x.id # id}]

\* The handle setTimeout returns: a number that no pending timer has (the
\* least one).
NewTimer(u) ==
    CHOOSE n \in 1..(Cardinality(u.timers) + 1) :
        /\ \A x \in u.timers : x.id # n
        /\ \A m \in 1..(n - 1) : \E x \in u.timers : x.id = m

\* debounceTimer = setTimeout(() => processJSON(), 800)
setDebounce(u) ==
    [u EXCEPT !.timers = u.timers \cup {[id |-> NewTimer(u), left |-> DebounceTicks]},
              !.debounceTimer = NewTimer(u)]

\* inputListener that arms a new timer without cancelling the pending one.
inputListener_NoClear(u, text) ==
    [setDebounce(hideError(updateEscapeButtons([u EXCEPT !.input = text])))
        EXCEPT !.since = 0, !.runs = 0, !.ok = TRUE]

\* The listener of the input event, run after the user made the text of the
\* input area be text.
inputListener(u, text) ==
    [setDebounce(clearTimeout(hideError(updateEscapeButtons([u EXCEPT !.input = text])),
                              u.debounceTimer))
        EXCEPT !.since = 0, !.runs = 0, !.ok = TRUE]

\* The callback of timer x runs: processJSON().
timerFired(u, x) ==
    [processJSON([u EXCEPT !.timers = u.timers \ {x}])
        EXCEPT !.runs = IF u.runs < 2 THEN u.runs + 1 ELSE 2]

\* One tick of time passes for every pending timer.
tickPassed(u) ==
    [u EXCEPT !.timers = {[x EXCEPT !.left = x.left - 1] : x \in u.timers},
              !.since = IF u.since < DebounceTicks THEN u.since + 1 ELSE u.since]

\* The texts typed or pasted into the input area: the layered texts, and
\* the empty and a blank text, plain words, null, numbers beyond the range
\* of a double, fragments, texts with whitespace or a byte-order mark, and
\* texts inside single quotes or backticks, one of them string-serialized.
OtherTexts ==
    {<<>>, <<SP>>, <<"n">>, <<"n", SP, "n">>, NullText,
     <<"1", "e", "9", "9", "9">>, <<"[", "1", "e", "9", "9", "9", "]">>,
     <<BOM, "[", "]">>, <<"[", LF, DQ, "n", DQ, "]">>,
     QuoteBody(JsonStringify(ObjectV(<< << <<"a">>, NumberV(1) >> >>))),
     QuoteBody(Quote(<<"n">>)),
     <<SQ, "[", "]", SQ>>, <<DQ, SQ, "[", "]", SQ, DQ>>,
     <<SQ, DQ, "[", "]", DQ, SQ>>, <<BT, DQ, "1", DQ, BT>>}

UiTexts == LayeredTexts \cup OtherTexts

\* The texts typed in a burst of input events.
BurstTexts == {t \in LayeredTexts : Len(t) <= 2 * MaxLen} \cup {<<>>, <<"n">>}

\* ------------------------------------------------------------------------
\* State: one input text, the frame of the smartParseJsonInput call on it,
\* and the results of the other functions called on the same text once
\* that call has ended; first holds the outcomes of a first round of calls
\* once a second round on the same text has begun; ui is the page.
\* ------------------------------------------------------------------------
VARIABLES raw, frame, analysis, unescaped, probe, form, first, ui

vars == <<raw, frame, analysis, unescaped, probe, form, first, ui>>

\* The result of a function: not yet called, or called with result r.
NotCalled == [called |-> FALSE, result |-> <<>>]
Called(r) == [called |-> TRUE, result |-> r]

Init ==
    /\ raw \in Inputs
    /\ \E maxDepth \in MaxDepths : frame = Frame(raw, maxDepth)
    /\ analysis = NotCalled
    /\ unescaped = NotCalled
    /\ probe = NotCalled
    /\ form = NotCalled
    /\ first = NotCalled
    /\ ui = UiInit

\* return { value: v, escapeDepth: depth }
DirectReturn ==
    /\ frame.pc = "loop"
    /\ frame' = LoopBody(frame)
    /\ frame'.last = "return"
    /\ UNCHANGED <<raw, analysis, unescaped, probe, form, first, ui>>

\* the parsed string is itself JSON: current = inner; depth++; continue
UnwrapJsonString ==
    /\ frame.pc = "loop"
    /\ frame' = LoopBody(frame)
    /\ frame'.last = "unwrapJson"
    /\ UNCHANGED <<raw, analysis, unescaped, probe, form, first, ui>>

\* the parsed string looks like an escaped payload: current = inner; depth++
UnwrapEscapedPayload ==
    /\ frame.pc = "loop"
    /\ frame' = LoopBody(frame)
    /\ frame'.last = "unwrapEscaped"
    /\ UNCHANGED <<raw, analysis, unescaped, probe, form, first, ui>>

\* current = stripped; continue
StripQuotes ==
    /\ frame.pc = "loop"
    /\ frame' = LoopBody(frame)
    /\ frame'.last = "strip"
    /\ UNCHANGED <<raw, analysis, unescaped, probe, form, first, ui>>

\* current = next; depth++; continue
DecodeStringLiteral ==
    /\ frame.pc = "loop"
    /\ frame' = LoopBody(frame)
    /\ frame'.last = "decode"
    /\ UNCHANGED <<raw, analysis, unescaped, probe, form, first, ui>>

\* no strategy advances: break, then throw
NoProgress ==
    /\ frame.pc = "loop"
    /\ frame' = LoopBody(frame)
    /\ frame'.last = "stop"
    /\ UNCHANGED <<raw, analysis, unescaped, probe, form, first, ui>>

\* the for loop ends (i reached maxDepth, or current was seen): throw
LoopExit ==
    /\ frame.pc = "loop"
    /\ frame' = LoopBody(frame)
    /\ frame'.last \in {"exhausted", "cycle"}
    /\ UNCHANGED <<raw, analysis, unescaped, probe, form, first, ui>>

AnalyzeJsonInput ==
    /\ frame.pc # "loop"
    /\ analysis = NotCalled
    /\ analysis' = Called(analyzeJsonInput(raw, frame.maxDepth))
    /\ UNCHANGED <<raw, frame, unescaped, probe, form, first, ui>>

ExecuteUnescape ==
    /\ frame.pc # "loop"
    /\ unescaped = NotCalled
    /\ unescaped' = Called(executeUnescape(raw))
    /\ UNCHANGED <<raw, frame, analysis, probe, form, first, ui>>

GetEscapeDepth ==
    /\ frame.pc # "loop"
    /\ probe = NotCalled
    /\ probe' = Called(getEscapeDepth(raw))
    /\ UNCHANGED <<raw, frame, analysis, unescaped, form, first, ui>>

DetectJsonInputForm ==
    /\ frame.pc # "loop"
    /\ form = NotCalled
    /\ form' = Called(detectJsonInputForm(raw))
    /\ UNCHANGED <<raw, frame, analysis, unescaped, probe, first, ui>>

Next ==
    \/ DirectReturn
    \/ UnwrapJsonString
    \/ UnwrapEscapedPayload
    \/ StripQuotes
    \/ DecodeStringLiteral
    \/ NoProgress
    \/ LoopExit
    \/ AnalyzeJsonInput
    \/ ExecuteUnescape

Spec == Init /\ [][Next]_vars

\* ------------------------------------------------------------------------
\* The standalone classifier functions of src/app.js, called on the text
\* next to the normalizer and analyzeJsonInput
\* ------------------------------------------------------------------------
NextStandalone ==
    \/ DirectReturn
    \/ UnwrapJsonString
    \/ UnwrapEscapedPayload
    \/ StripQuotes
    \/ DecodeStringLiteral
    \/ NoProgress
    \/ LoopExit
    \/ AnalyzeJsonInput
    \/ GetEscapeDepth
    \/ DetectJsonInputForm

SpecStandalone == Init /\ [][NextStandalone]_vars

\* ------------------------------------------------------------------------
\* A second round of calls with the same arguments
\* ------------------------------------------------------------------------
\* What a caller sees of an ended call: the value and escapeDepth returned,
\* or the error thrown with its metadata.
Outcome(f) ==
    [pc |-> f.pc, value |-> f.value, escapeDepth |-> f.escapeDepth,
     lastError |-> f.lastError, maxDepthTried |-> f.maxDepthTried]

\* A later call that would find the seen set of the call before it.
Restart_KeepsSeen(f, text) == [Frame(text, f.maxDepth) EXCEPT !.seen = f.seen]

\* A later call with the same arguments: its locals are created anew.
Restart(f, text) == Frame(text, f.maxDepth)

\* Texts for the two-round specification: the inputs that are not short
\* texts, and the short texts below MaxLen.
TwiceInputs == {t \in Inputs : t \notin ShortTexts \/ Len(t) < MaxLen}

InitTwice == Init /\ raw \in TwiceInputs

\* smartParseJsonInput is called again on raw with the same maxDepth, and
\* analyzeJsonInput and executeUnescape may be called again after it.
CallAgain ==
    /\ frame.pc # "loop"
    /\ first = NotCalled
    /\ first' = Called([parse |-> Outcome(frame), analysis |-> analysis,
                        unescaped |-> unescaped])
    /\ frame' = Restart(frame, raw)
    /\ analysis' = NotCalled
    /\ unescaped' = NotCalled
    /\ UNCHANGED <<raw, probe, form, ui>>

NextTwice ==
    \/ DirectReturn
    \/ UnwrapJsonString
    \/ UnwrapEscapedPayload
    \/ StripQuotes
    \/ DecodeStringLiteral
    \/ NoProgress
    \/ LoopExit
    \/ AnalyzeJsonInput
    \/ ExecuteUnescape
    \/ CallAgain

SpecTwice == InitTwice /\ [][NextTwice]_vars

\* ------------------------------------------------------------------------
\* The handlers of the page
\* ------------------------------------------------------------------------
Untested == <<raw, frame, analysis, unescaped, probe, form, first>>

\* The page is loaded; none of the functions is called from outside it.
InitUI == Init /\ raw = <<>> /\ frame.maxDepth = DefaultMaxDepth

\* The user types or pastes: the text becomes t and the input event fires.
InputEvent ==
    /\ \E t \in UiTexts : ui' = [inputListener(ui, t) EXCEPT !.last = "input"]
    /\ Cardinality(ui'.timers) <= MaxTimers
    /\ UNCHANGED Untested

FormatInput ==
    /\ ui' = [formatInput(ui) EXCEPT !.last = "format"]
    /\ UNCHANGED Untested

MinifyInput ==
    /\ ui' = [minifyInput(ui) EXCEPT !.last = "minify"]
    /\ UNCHANGED Untested

EscapeJsonInput ==
    /\ ui' = [escapeJsonInput(ui) EXCEPT !.last = "escape"]
    /\ UNCHANGED Untested

UnescapeJsonInput ==
    /\ ui' = [unescapeJsonInput(ui) EXCEPT !.last = "unescape"]
    /\ UNCHANGED Untested

ClearAll ==
    /\ ui' = [clearAll(ui) EXCEPT !.last = "clear"]
    /\ UNCHANGED Untested

\* Time passes while no pending timer is due.
Tick ==
    /\ ui.timers # {}
    /\ \A x \in ui.timers : x.left > 0
    /\ ui' = tickPassed(ui)
    /\ UNCHANGED Untested

\* A timer that is due runs its callback.
DebounceFire ==
    /\ \E x \in ui.timers : x.left = 0 /\ ui' = timerFired(ui, x)
    /\ UNCHANGED Untested

NextUI ==
    \/ InputEvent
    \/ FormatInput
    \/ MinifyInput
    \/ EscapeJsonInput
    \/ UnescapeJsonInput
    \/ ClearAll
    \/ Tick
    \/ DebounceFire

SpecUI == InitUI /\ [][NextUI]_vars

\* ------------------------------------------------------------------------
\* A burst of input events: time passes and a due timer runs its callback
\* ------------------------------------------------------------------------
TypeBurst ==
    /\ \E t \in BurstTexts : ui' = [inputListener(ui, t) EXCEPT !.last = "input"]
    /\ Cardinality(ui'.timers) <= MaxTimers
    /\ UNCHANGED Untested

NextDebounce ==
    \/ TypeBurst
    \/ Tick
    \/ DebounceFire

\* A timer is due: DebounceFire is enabled, and since it takes the timer
\* off the pending ones, it changes vars.
TimerDue == \E x \in ui.timers : x.left = 0

\* WF_vars(DebounceFire), its ENABLED <<DebounceFire>>_vars written as
\* TimerDue: the event loop runs the callback of a timer that is due.
FairDebounceFire == []<>(~TimerDue) \/ []<><<DebounceFire>>_vars

\* Time does not stop, and the event loop runs the callback of a due timer.
SpecDebounce ==
    InitUI /\ [][NextDebounce]_vars /\ WF_vars(Tick) /\ FairDebounceFire

\* ------------------------------------------------------------------------
\* Properties
\* ------------------------------------------------------------------------
\* Deep equality of two JSON values.
SameValue(a, b) == a.t = b.t /\ a.v = b.v

Returned == frame.pc = "return"
Ended == frame.pc # "loop"

\* The text is a JSON string literal.
IsStringLiteral(text) == JsonParse(text).ok /\ JsonParse(text).value.t = "string"

\* C1 as stated: for every document D of the model, strings included, and
\* every N, smartParseJsonInput(E_N) with the default maxDepth returns a value
\* deep-equal to D and escapeDepth N.
C1_RoundTripEveryDocument ==
    \A D \in Docs, N \in 0..MaxLayers :
        (Ended /\ frame.maxDepth = DefaultMaxDepth /\ raw = LayeredText[D, N])
            => (Returned /\ SameValue(frame.value, D) /\ frame.escapeDepth = N)

\* C1 as amended: for every document D that is not a string and every N below
\* maxDepth, smartParseJsonInput(E_N) returns a value deep-equal to D and
\* escapeDepth exactly N.
C1_RoundTripNonString ==
    \A D \in NonStringDocs, N \in 0..MaxLayers :
        (Ended /\ N < frame.maxDepth /\ raw = LayeredText[D, N])
            => (Returned /\ SameValue(frame.value, D) /\ frame.escapeDepth = N)

\* {"a":1} serialized and string-serialized twice has been normalized.
C1_Witness ==
    /\ raw = Layered(ObjectV(<< << <<"a">>, NumberV(1) >> >>), 2)
    /\ Returned
    /\ frame.escapeDepth = 2

\* C2: when the BOM-stripped, trimmed input is a JSON document that is not a
\* string and maxDepth >= 1, the call returns the directly parsed value with
\* escapeDepth 0 in the first pass of the loop.
C2_DirectNonString ==
    (/\ Ended
     /\ frame.maxDepth >= 1
     /\ tryParse(normalize(raw)).ok
     /\ tryParse(normalize(raw)).value.t # "string")
        => (/\ Returned
            /\ SameValue(frame.value, tryParse(normalize(raw)).value)
            /\ frame.escapeDepth = 0
            /\ frame.i = 1)

\* {"a":1} between a byte-order mark and a line feed has been returned.
C2_Witness ==
    /\ raw = <<BOM, SP>> \o JsonStringify(ObjectV(<< << <<"a">>, NumberV(1) >> >>)) \o <<LF>>
    /\ Returned
    /\ frame.value.t = "object"

\* C3 as stated: an input that is a JSON string literal whose decoded content
\* is not parseable as JSON is returned as that string with escapeDepth 0.
C3_StringKeptWheneverNotJson ==
    (/\ Ended
     /\ frame.maxDepth = DefaultMaxDepth
     /\ IsStringLiteral(raw)
     /\ ~tryParse(JsonParse(raw).value.v).ok)
        => (/\ Returned
            /\ SameValue(frame.value, JsonParse(raw).value)
            /\ frame.escapeDepth = 0)

\* C3 as amended: an input that is a JSON string literal whose decoded content,
\* once trimmed, is not parseable as JSON and holds no backslash escape
\* sequence is returned as the decoded string with escapeDepth 0 (maxDepth >= 1).
C3_PlainStringKept ==
    (/\ Ended
     /\ frame.maxDepth >= 1
     /\ IsStringLiteral(raw)
     /\ ~tryParse(normalize(JsonParse(raw).value.v)).ok
     /\ ~LooksEscaped(normalize(JsonParse(raw).value.v)))
        => (/\ Returned
            /\ SameValue(frame.value, JsonParse(raw).value)
            /\ frame.escapeDepth = 0)

\* The string literal "n b" has been returned as the string n b.
C3_Witness ==
    /\ raw = <<DQ, "n", SP, "b", DQ>>
    /\ Returned
    /\ frame.value = StringV(<<"n", SP, "b">>)

\* The text whose quotes, escaped once, give the fragment: the backslash in
\* front of every double quote removed.
RECURSIVE UnescapeQuotes(_)
UnescapeQuotes(text) ==
    IF text = <<>> THEN <<>>
    ELSE IF Len(text) >= 2 /\ text[1] = BS /\ text[2] = DQ
         THEN <<DQ>> \o UnescapeQuotes(SubSeq(text, 3, Len(text)))
         ELSE <<text[1]>> \o UnescapeQuotes(Tail(text))

\* The text is a JSON document that holds double quotes, written with its
\* quotes backslash-escaped once and no enclosing quotes.
IsEscapedFragment(text) ==
    /\ \E k \in 1..Len(text) : text[k] = DQ
    /\ EscapeQuotes(UnescapeQuotes(text)) = text
    /\ JsonParse(UnescapeQuotes(text)).ok

\* C4 as stated: for every JSON document text J holding double quotes, J with
\* its quotes backslash-escaped once and no enclosing quotes normalizes to the
\* value of J with escapeDepth >= 1.
C4_FragmentEveryDocument ==
    (Ended /\ frame.maxDepth = DefaultMaxDepth /\ IsEscapedFragment(raw))
        => (/\ Returned
            /\ SameValue(frame.value, JsonParse(UnescapeQuotes(raw)).value)
            /\ frame.escapeDepth >= 1)

\* J has no backslash and no tab, and is not a string literal whose trimmed
\* content is itself JSON.
PlainDocumentText(J) ==
    /\ \A k \in 1..Len(J) : J[k] \notin {BS, TAB}
    /\ JsonParse(J).value.t = "string"
          => ~tryParse(normalize(JsonParse(J).value.v)).ok

\* C4 as amended: the same for the texts J that hold no backslash and no tab
\* and are not string literals whose trimmed content is JSON (maxDepth >= 2).
C4_FragmentPlainDocument ==
    (/\ Ended
     /\ frame.maxDepth >= 2
     /\ IsEscapedFragment(raw)
     /\ PlainDocumentText(UnescapeQuotes(raw)))
        => (/\ Returned
            /\ SameValue(frame.value, JsonParse(UnescapeQuotes(raw)).value)
            /\ frame.escapeDepth >= 1)

\* The fragment {\"a\":1} has been normalized to the object.
C4_Witness ==
    /\ raw = <<"{", BS, DQ, "a", BS, DQ, ":", "1", "}">>
    /\ Returned
    /\ frame.value.t = "object"
    /\ frame.escapeDepth = 1

\* The input is the serialization of a JSON document.
IsSerializedDocument(text) ==
    JsonParse(text).ok /\ JsonStringify(JsonParse(text).value) = text

\* C5 as stated: for every document D, strings included,
\* analyzeJsonInput(stringify(D)) is {json, 0}.
C5_CleanEveryDocument ==
    (analysis.called /\ frame.maxDepth = DefaultMaxDepth /\ IsSerializedDocument(raw))
        => analysis.result = [form |-> "json", escapeDepth |-> 0]

\* C5 as amended: for every document D that is not a string,
\* analyzeJsonInput(stringify(D)) is {json, 0} (maxDepth >= 1).
C5_CleanNonString ==
    (/\ analysis.called
     /\ frame.maxDepth >= 1
     /\ IsSerializedDocument(raw)
     /\ JsonParse(raw).value.t # "string")
        => analysis.result = [form |-> "json", escapeDepth |-> 0]

\* The serialized array ["n"] has been classified.
C5_Witness ==
    /\ raw = <<"[", DQ, "n", DQ, "]">>
    /\ analysis.called
    /\ analysis.result.form = "json"

\* C6: analyzeJsonInput always returns a record whose form is json, escaped or
\* unknown and whose escapeDepth is a natural number; an error thrown by the
\* normalizer never leaves it.
C6_ClassifierNeverThrows ==
    analysis.called
        => (/\ analysis.result.form \in {"json", "escaped", "unknown"}
            /\ analysis.result.escapeDepth \in Nat)

\* A text that is not blank, on which the normalizer throws, has been
\* classified.
C6_Witness ==
    /\ Trim(raw) # <<>>
    /\ frame.pc = "throw"
    /\ frame.maxDepth = DefaultMaxDepth
    /\ analysis.called
    /\ analysis.result.form = "unknown"

\* C7: analyzeJsonInput gives {unknown, 0} for blank input and when the
\* normalizer throws; otherwise it gives the escapeDepth of the normalizer and
\* the form escaped exactly when that depth is positive, else json.
C7_ClassifierMapping ==
    analysis.called
        => IF Trim(raw) = <<>> \/ frame.pc = "throw"
           THEN analysis.result = [form |-> "unknown", escapeDepth |-> 0]
           ELSE /\ analysis.result.escapeDepth = frame.escapeDepth
                /\ analysis.result.form =
                       (IF frame.escapeDepth > 0 THEN "escaped" ELSE "json")

\* An input the normalizer unwrapped twice has been classified as escaped.
C7_Witness ==
    /\ Returned
    /\ frame.escapeDepth = 2
    /\ analysis.called
    /\ analysis.result = [form |-> "escaped", escapeDepth |-> 2]

\* C8: the loop body runs at most maxDepth times, and every pass either ends
\* the call or uses up one of the maxDepth passes, a quote strip included.
C8_Termination ==
    /\ [](frame.i <= frame.maxDepth)
    /\ [][frame.pc = "loop" => (frame'.pc # "loop" \/ frame'.i = frame.i + 1)]_vars

\* A call whose passes were used up, one of them by a quote strip.
C8_Witness ==
    /\ frame.pc = "throw"
    /\ frame.last = "exhausted"
    /\ frame.i = frame.maxDepth
    /\ frame.lastError = "SyntaxError"
    /\ frame.depth < frame.i

\* C9: whenever smartParseJsonInput(raw) returns, the standalone
\* getEscapeDepth(raw) equals its escapeDepth.
C9_ProbeAgrees ==
    (Returned /\ frame.maxDepth = DefaultMaxDepth /\ probe.called)
        => probe.result = frame.escapeDepth

\* C10: executeUnescape returns a string for every input that is not empty.
C10_UnescapeNeverRaises ==
    (unescaped.called /\ raw # <<>>) => unescaped.result.ok

\* C11: whenever executeUnescape returns through rung 3 (the direct parse gave
\* no string and the verbatim quoting failed), the string returned is raw
\* unchanged.
C11_Rung3Identity ==
    (unescaped.called /\ unescaped.result.ok /\ unescaped.result.rung = 3)
        => unescaped.result.value = raw

\* The text n"n (a double quote between two letters) came back from rung 3.
C11_Witness ==
    /\ raw = <<"n", DQ, "n">>
    /\ unescaped.called
    /\ unescaped.result.ok
    /\ unescaped.result.rung = 3
    /\ unescaped.result.value = <<"n", DQ, "n">>

\* The strings s of the model whose serialization, with or without its
\* enclosing quotes, is an input: the layered texts below the top layer,
\* the contents of the string documents and the texts of at most one
\* character, each paired with JSON.stringify(s).
UnescapeSubjects ==
    {Layered(D, N) : D \in Docs, N \in 0..(MaxLayers - 1)}
        \cup {D.v : D \in StringDocs}
        \cup {t \in ShortTexts : Len(t) <= 1}

SerializedSubjects == {<<s, Quote(s)>> : s \in UnescapeSubjects}

\* C12: for every string s, executeUnescape(JSON.stringify(s)) returns s
\* through the direct parse: exactly one string-encoding layer is removed.
C12_OneLayerRemoved ==
    \A p \in SerializedSubjects :
        (unescaped.called /\ raw = p[2])
            => unescaped.result = Unescaped(p[1], 1)

\* {"a":1} serialized and string-serialized twice came back as the text
\* string-serialized once.
C12_Witness ==
    /\ raw = Layered(ObjectV(<< << <<"a">>, NumberV(1) >> >>), 2)
    /\ unescaped.called
    /\ unescaped.result.ok
    /\ unescaped.result.value = Layered(ObjectV(<< << <<"a">>, NumberV(1) >> >>), 1)

\* C13: for every non-empty string s, executeUnescape of JSON.stringify(s)
\* without its enclosing double quotes returns s.
C13_UnquotedDecoded ==
    \A p \in SerializedSubjects :
        (unescaped.called /\ p[1] # <<>> /\ raw = SubSeq(p[2], 2, Len(p[2]) - 1))
            => (unescaped.result.ok /\ unescaped.result.value = p[1])

\* {\"a\":1} came back as {"a":1} from rung 2.
C13_Witness ==
    /\ raw = QuoteBody(JsonStringify(ObjectV(<< << <<"a">>, NumberV(1) >> >>)))
    /\ unescaped.called
    /\ unescaped.result = Unescaped(JsonStringify(ObjectV(<< << <<"a">>, NumberV(1) >> >>)), 2)

\* C14: whenever smartParseJsonInput fails, the error thrown carries
\* smartParse = {maxDepthTried, escapeDepth} with maxDepthTried the maxDepth
\* argument and escapeDepth the depth counter at the moment the loop stopped.
C14_FailureMetadata ==
    [][(frame.pc = "loop" /\ frame'.pc = "throw")
          => (/\ frame'.maxDepthTried = frame.maxDepth
              /\ frame'.escapeDepth = frame.depth
              /\ frame'.depth = frame.depth
              /\ frame'.maxDepth = frame.maxDepth)]_vars

\* A call failed after one unwrap with the default maxDepth.
C14_Witness ==
    /\ frame.pc = "throw"
    /\ frame.depth = 1
    /\ frame.escapeDepth = 1
    /\ frame.maxDepthTried = DefaultMaxDepth

\* The objects and arrays of the model.
ContainerDocs == {D \in NonStringDocs : D.t \in {"object", "array"}}

\* E_N of every object or array D, paired with N.
LayeredContainers ==
    {<<Layered(D, N), N>> : D \in ContainerDocs, N \in 0..MaxLayers}

C16_EscapedAtAnyDepth ==
    \A p \in LayeredContainers :
        (/\ p[2] >= 1
         /\ \/ raw = p[1]
            \/ /\ p[2] = 1
               /\ raw = SubSeq(p[1], 2, Len(p[1]) - 1)
               /\ \E k \in 1..Len(raw) : raw[k] = BS)
            => (/\ form.called => form.result = "escaped"
                /\ (analysis.called /\ frame.maxDepth = DefaultMaxDepth)
                       => analysis.result.form = "escaped")

DecodesToItself(c) ==
    /\ ~tryParse(c).ok
    /\ stripOuterNonJsonQuotes(c) = c
    /\ tryDecodeAsJsonStringLiteral(c).ok
    /\ tryDecodeAsJsonStringLiteral(c).value.t = "string"
    /\ normalize(tryDecodeAsJsonStringLiteral(c).value.v) = c

SelfDecoding(text) == DecodesToItself(stripOuterNonJsonQuotes(text))

\* C18 as stated: for an input that decodes to itself under the
\* string-literal-decode step, the call halts through the cycle guard (the
\* test that current is already in the seen set).
C18_HaltsByCycleGuard ==
    (Ended /\ frame.maxDepth >= 1 /\ SelfDecoding(raw)) => frame.last = "cycle"

\* C18 as amended: for an input that decodes to itself under the
\* string-literal-decode step and maxDepth >= 1, the call fails in its first
\* pass because the decoded text equals current (no strategy advances); the
\* seen-set test is not what stops it and no further pass is run.
C18_HaltsInFirstPass ==
    (Ended /\ frame.maxDepth >= 1 /\ SelfDecoding(raw))
        => (/\ frame.pc = "throw"
            /\ frame.last = "stop"
            /\ frame.i = 1
            /\ frame.depth = 0
            /\ frame.seen = {frame.current})

\* The plain text n ended the call in its first pass with maxDepth 25.
C18_Witness ==
    /\ raw = <<"n">>
    /\ SelfDecoding(raw)
    /\ frame.maxDepth = DefaultMaxDepth
    /\ frame.pc = "throw"
    /\ frame.last = "stop"
    /\ frame.i = 1

\* C19: whenever the call fails because no terminal decision was made within
\* maxDepth iterations (the for loop ran out), the error thrown is the last
\* SyntaxError of a real parse attempt, with the depth reached attached.
C19_ExhaustionCarriesSyntaxError ==
    (frame.pc = "throw" /\ frame.last = "exhausted")
        => (frame.lastError = "SyntaxError" /\ frame.escapeDepth = frame.depth)

\* The text starts and ends with the quote character q.
WrappedIn(text, q) == Len(text) >= 2 /\ text[1] = q /\ text[Len(text)] = q

\* The text between the first and the last character.
Unwrapped(text) == SubSeq(text, 2, Len(text) - 1)

\* The same value and escapeDepth, or a failure in both.
SameOutcome(f, g) ==
    /\ f.pc = g.pc
    /\ f.pc = "return" => (SameValue(f.value, g.value) /\ f.escapeDepth = g.escapeDepth)

\* C20 as stated: for every text J and every maxDepth, smartParseJsonInput of
\* J wrapped in one extra pair of single quotes or backticks has the outcome
\* of smartParseJsonInput(J).
C20_ExtraQuotesSameOutcome ==
    \A q \in {SQ, BT} :
        (Ended /\ WrappedIn(raw, q))
            => SameOutcome(frame, smartParseJsonInput(Unwrapped(raw), frame.maxDepth))

\* C20 as amended: a quote strip never increments depth, and for every text J
\* that is not itself wrapped in single quotes or backticks once trimmed, and
\* every maxDepth, smartParseJsonInput of J wrapped in one pair of single
\* quotes or backticks has the outcome of smartParseJsonInput(J).
C20_StripDepthNeutral ==
    /\ [][(frame.pc = "loop" /\ frame'.i = frame.i + 1 /\ frame'.last = "strip")
             => frame'.depth = frame.depth]_vars
    /\ [](\A q \in {SQ, BT} :
            (/\ Ended
             /\ WrappedIn(raw, q)
             /\ stripOuterNonJsonQuotes(Unwrapped(raw)) = normalize(Unwrapped(raw)))
                => SameOutcome(frame,
                               smartParseJsonInput(Unwrapped(raw), frame.maxDepth)))

\* {"a":1} string-serialized once inside backticks inside single quotes:
\* the backticks were stripped in a pass of the loop and the call returned
\* the object with escapeDepth 1.
C20_Witness ==
    /\ raw = <<SQ, BT>> \o Layered(ObjectV(<< << <<"a">>, NumberV(1) >> >>), 1) \o <<BT, SQ>>
    /\ Returned
    /\ frame.value.t = "object"
    /\ frame.escapeDepth = 1
    /\ frame.i = 3

\* The passes that replace current by the content of a parsed string or by a
\* string-literal decode.
CountedWays == {"unwrapJson", "unwrapEscaped", "decode"}

\* C21: the depth counter starts at 0, grows by exactly one in every pass
\* that replaces current by the content of a parsed string or by a
\* string-literal decode and stays as it is in every other pass (a quote
\* strip, the returning pass, the pass that stops); a successful call
\* returns that counter as escapeDepth, and 0 <= escapeDepth <= maxDepth - 1.
C21_DepthCountsUnwraps ==
    /\ [](frame.i = 0 => frame.depth = 0)
    /\ [][frame.pc = "loop"
            => frame'.depth =
                  frame.depth + (IF frame'.last \in CountedWays THEN 1 ELSE 0)]_vars
    /\ [](Returned => (/\ frame.escapeDepth = frame.depth
                       /\ 0 <= frame.escapeDepth
                       /\ frame.escapeDepth <= frame.maxDepth - 1))

\* {"a":1} string-serialized twice inside backticks inside single quotes: a
\* quote strip, two unwraps and the returning pass gave escapeDepth 2 after
\* four passes.
C21_Witness ==
    /\ raw = <<SQ, BT>> \o Layered(ObjectV(<< << <<"a">>, NumberV(1) >> >>), 2) \o <<BT, SQ>>
    /\ Returned
    /\ frame.i = 4
    /\ frame.escapeDepth = 2

\* The frame is at a pass in which the direct parse of current fails, no
\* outer quotes can be stripped and the string-literal decode of current
\* gives the empty text or current itself.
DecodeMakesNoProgress(f) ==
    /\ f.pc = "loop"
    /\ f.i < f.maxDepth
    /\ ~tryParse(f.current).ok
    /\ stripOuterNonJsonQuotes(f.current) = f.current
    /\ tryDecodeAsJsonStringLiteral(f.current).ok
    /\ tryDecodeAsJsonStringLiteral(f.current).value.t = "string"
    /\ normalize(tryDecodeAsJsonStringLiteral(f.current).value.v) \in {<<>>, f.current}

\* The trimmed text is not JSON, holds no backslash and is not wrapped in
\* single quotes or backticks.
PlainNonJson(text) ==
    /\ \A k \in 1..Len(text) : text[k] # BS
    /\ stripOuterNonJsonQuotes(text) = normalize(text)
    /\ ~tryParse(normalize(text)).ok

\* C22: a pass in which the direct parse fails, no quotes can be stripped
\* and the decode gives the empty text or current itself ends the call with
\* a failure, without another pass and without incrementing depth; so a text
\* that is not JSON and has no backslash and no wrapping quotes fails with
\* escapeDepth 0 and is classified {unknown, 0}.
C22_NoProgressStops ==
    /\ [][DecodeMakesNoProgress(frame)
            => (/\ frame'.pc = "throw"
                /\ frame'.last = "stop"
                /\ frame'.i = frame.i + 1
                /\ frame'.depth = frame.depth
                /\ frame'.escapeDepth = frame.depth)]_vars
    /\ []((Ended /\ PlainNonJson(raw))
             => (/\ frame.pc = "throw"
                 /\ frame.escapeDepth = 0
                 /\ analysis.called
                       => analysis.result = [form |-> "unknown", escapeDepth |-> 0]))

\* The text n n (two words) failed in its first pass and was classified
\* unknown.
C22_Witness ==
    /\ raw = <<"n", SP, "n">>
    /\ frame.maxDepth = DefaultMaxDepth
    /\ frame.pc = "throw"
    /\ frame.last = "stop"
    /\ frame.i = 1
    /\ frame.escapeDepth = 0
    /\ analysis.called
    /\ analysis.result.form = "unknown"

\* C23: for every text that is a valid JSON document, string documents with
\* backslash sequences in their content included, smartParseJsonInput with
\* the default maxDepth returns a result and does not throw.
C23_ValidJsonNeverFails ==
    (Ended /\ frame.maxDepth = DefaultMaxDepth /\ JsonParse(raw).ok) => Returned

\* C24 as stated: every pass that continues (an unwrap of a parsed string, a
\* quote strip or a string-literal decode) leaves a current strictly shorter
\* than the one it found.
C24_StrictlyShorter ==
    [][(frame.pc = "loop" /\ frame'.pc = "loop")
          => Len(frame'.current) < Len(frame.current)]_vars

\* A backslash of the text is directly followed by a raw carriage return or
\* line feed.
BackslashBeforeNewline(text) ==
    \E k \in 1..(Len(text) - 1) : text[k] = BS /\ text[k + 1] \in {CR, LF}

\* C24 as amended: every pass that continues leaves a current that is not
\* longer than the one it found, and strictly shorter unless the pass is a
\* string-literal decode of a text in which a backslash is directly followed
\* by a raw carriage return or line feed; the new current is none of the
\* texts seen before, so the test that current is in the seen set is never
\* true; and the loop ends after at most length(input) + 1 passes, whatever
\* maxDepth is.
C24_CurrentNeverRepeats ==
    /\ [][(frame.pc = "loop" /\ frame'.pc = "loop")
            => (/\ Len(frame'.current) <= Len(frame.current)
                /\ Len(frame'.current) = Len(frame.current)
                      => (frame'.last = "decode" /\ BackslashBeforeNewline(frame.current))
                /\ frame'.seen = frame.seen \cup {frame.current}
                /\ frame'.current \notin frame'.seen)]_vars
    /\ [](frame.last # "cycle")
    /\ [](frame.i <= Len(raw) + 1)

\* The decode of a backslash, a raw line feed and [ left a current of the
\* same length that was not seen before, and the next decode a shorter one.
C24_Witness ==
    /\ raw = <<BS, LF, "[">>
    /\ frame.pc = "loop"
    /\ frame.i = 2
    /\ frame.last = "decode"
    /\ frame.seen = {<<BS, LF, "[">>, <<BS, "n", "[">>}
    /\ frame.current = <<"[">>

\* The call that ended in frame g returned the value of the call that ended
\* in frame f with one layer less.
OneLayerLess(f, g) ==
    /\ g.pc = "return"
    /\ SameValue(g.value, f.value)
    /\ g.escapeDepth = f.escapeDepth - 1

\* C25: for every input on which smartParseJsonInput succeeds with
\* escapeDepth d >= 1, inputs wrapped in single quotes or backticks
\* included, executeUnescape returns a text on which smartParseJsonInput
\* succeeds with the same value and escapeDepth d - 1.
C25_UnescapeLowersDepth ==
    (/\ Returned
     /\ frame.escapeDepth >= 1
     /\ frame.maxDepth = DefaultMaxDepth
     /\ unescaped.called)
        => (/\ unescaped.result.ok
            /\ OneLayerLess(frame, smartParseJsonInput(unescaped.result.value,
                                                       DefaultMaxDepth)))

\* C26: the unescape action, started from its visible button, ends in its
\* 'Unescape failed' path, the input left as it was, only when
\* executeUnescape itself fails; after a 'json' classification of the
\* unescaped text the JSON.parse that follows succeeds.
C26_JsonFormAlwaysParses ==
    (/\ ui.last = "unescape"
     /\ ~ui.ok
     /\ ~ui.unescapeHidden
     /\ Trim(ui.input) # <<>>)
        => ~executeUnescape(Trim(ui.input)).ok

\* C27: at most one of the escape and unescape buttons is visible; the
\* unescape button is visible exactly when analyzeJsonInput classifies the
\* input as escaped, the escape button exactly when it classifies it as json,
\* neither when unknown; the depth hint is visible only when the form is
\* escaped and the depth is greater than 1.
C27_ButtonsTrackInput ==
    /\ ui.escapeHidden \/ ui.unescapeHidden
    /\ ~ui.unescapeHidden <=> analyzeDefault(ui.input).form = "escaped"
    /\ ~ui.escapeHidden <=> analyzeDefault(ui.input).form = "json"
    /\ ~ui.hintHidden => (/\ analyzeDefault(ui.input).form = "escaped"
                          /\ analyzeDefault(ui.input).escapeDepth > 1
                          /\ ui.hint = analyzeDefault(ui.input).escapeDepth)

\* After a text escaped twice was unescaped one level, the unescape button
\* is visible and the hint, which still reads 2x, is hidden.
C27_Witness ==
    /\ ui.last = "unescape"
    /\ ui.ok
    /\ ui.input = Layered(ArrayV(<<StringV(<<"n">>)>>), 1)
    /\ ~ui.unescapeHidden
    /\ ui.escapeHidden
    /\ ui.hintHidden
    /\ ui.hint = 2

\* smartParseJsonInput on the text of the input area, as the handlers call it.
ParsedInput(u) == smartParseJsonInput(Trim(u.input), DefaultMaxDepth)

\* C28: after escapeJsonInput succeeds on any input, the new input text
\* normalizes to the same value as before and escapeDepth exactly 1.
C28_EscapeOneLayer ==
    [][(EscapeJsonInput /\ ui'.ok)
          => (/\ ParsedInput(ui').pc = "return"
              /\ SameValue(ParsedInput(ui').value, ParsedInput(ui).value)
              /\ ParsedInput(ui').escapeDepth = 1)]_vars

\* C29: after formatInput or minifyInput succeeds on any input, the new
\* input text is classified {json, 0} and normalizes to the same value as
\* the old text, and the same action applied again leaves the text unchanged.
C29_FormatMinifyIdempotent ==
    [][((FormatInput \/ MinifyInput) /\ ui'.ok)
          => (/\ analyzeDefault(ui'.input) = [form |-> "json", escapeDepth |-> 0]
              /\ ParsedInput(ui').pc = "return"
              /\ SameValue(ParsedInput(ui').value, ParsedInput(ui).value)
              /\ FormatInput => formatInput(ui').input = ui'.input
              /\ MinifyInput => minifyInput(ui').input = ui'.input)]_vars


\* C30: at most one debounce timer is pending at any time; the timer's
\* callback runs processJSON only when DebounceTicks ticks have passed since
\* the last input event, and at most once after it, leaving the page as
\* processJSON leaves it for the text of that event; and unless input
\* events keep arriving, processJSON eventually has run once after the last
\* of them and no timer is pending.
C30_Debounce ==
    /\ [](Cardinality(ui.timers) <= 1)
    /\ [][ui'.runs > ui.runs => ui.since = DebounceTicks]_vars
    /\ [](ui.runs <= 1)
    /\ [](ui.runs = 1 => processJSON(ui) = ui)
    /\ \/ []<><<TypeBurst>>_vars
       \/ <>[](ui.last = "input" => (ui.runs = 1 /\ ui.timers = {}))

\* The last input event left an array escaped once in the input area; its
\* timer has run processJSON on that text and no timer is pending.
C30_Witness ==
    /\ ui.last = "input"
    /\ ui.input = Layered(ArrayV(<<>>), 1)
    /\ ui.runs = 1
    /\ ui.timers = {}
    /\ ui.output = ArrayV(<<>>)

=============================================================================
